---- MODULE Spec2Model ----
(***************************************************************************)
(* Acoustic capture pipeline of GGHydro.                                   *)
(*                                                                         *)
(* Part A: MainWindow (GGHydroSuite recorder) driving RecorderWorker.run   *)
(*         and record_microphone_to_tdms through Qt queued signals.        *)
(* Part B: RecordingTab driving DAQWorker (a QThread).                     *)
(*                                                                         *)
(* Time is counted in polling sleeps: during one sleep a running, healthy  *)
(* task acquires SamplesPerPoll samples.  A duration is carried as a       *)
(* number of half sample periods (h = 2 * SAMPLE_RATE * duration_s), so    *)
(* that round() of the code keeps its half-to-even behaviour.              *)
(***************************************************************************)
EXTENDS Integers, Sequences, FiniteSets, TLC

\* ---------------------------------------------------------------- bounds
MaxSessions == 2          \* sessions started in one run of the program
MaxSamples == 2           \* largest whole sample count the UI can request
MaxIdx == 3               \* path ids: 1 is the built name, n >= 2 is "stem (n).tdms"
MaxPolls == 6             \* sleeps of one polling loop before the model stops counting
GuardPolls == 2           \* the guard margin of the spec, in polling sleeps
SamplesPerPoll == 1       \* samples a healthy task acquires during one sleep
MaxDuration == 2          \* largest value of RecordingTab.duration, in sleeps
MaxStrLen == 5            \* longest text given to sanitize_token
MaxLenArg == 2            \* small max_len values given to sanitize_token: 0..MaxLenArg
MaxCalls == 2             \* calls of build_tdms_filename with the same arguments
MaxZeros == 23            \* most zero samples of a signal
MaxOther == 1             \* most samples of each other kind of a signal
WaitMargin == 2           \* wait_until_done(timeout = duration + 2)
DefaultMaxLen == 60       \* sanitize_token(text, max_len=60)
NSections == 3            \* second-order sections of the 6th-order A-weighting filter
F4MilliHz == 12194217     \* f4 = 12194.217 Hz

Sessions == 1..MaxSessions
PathIds == 1..MaxIdx

VARIABLES
    \* MainWindow
    stop_event,     \* threading.Event shared by all sessions
    btn_start,      \* Start button enabled
    btn_stop,       \* Stop button enabled
    lbl_status,     \* text of the status label
    started_at,     \* TRUE iff self.started_at is not None
    ui_timer,       \* TRUE iff the 50 ms UI timer runs
    msgbox,         \* the modal dialog shown by the latest handler
    files,          \* path ids that exist in the storage folder
    nsessions,      \* number of RecorderWorker objects created so far
    session,        \* per session: what start_recording decided, signals delivered
    \* RecorderWorker / record_microphone_to_tdms, per session
    worker,
    \* nidaqmx.Task of the session
    task,
    \* RecordingTab, its DAQWorker thread, the worker's task, queued signals
    tab,
    daq,
    dtask,
    dqueue,
    \* one application of a pure function: its arguments, the results of the
    \* calls made so far, and the date of the clock
    args,
    ret,
    today

mwVars == <<stop_event, btn_start, btn_stop, lbl_status, started_at, ui_timer, msgbox>>
vars == <<stop_event, btn_start, btn_stop, lbl_status, started_at, ui_timer, msgbox,
          files, nsessions, session, worker, task, tab, daq, dtask, dqueue,
          args, ret, today>>
progVars == <<stop_event, btn_start, btn_stop, lbl_status, started_at, ui_timer, msgbox,
              files, nsessions, session, worker, task, tab, daq, dtask, dqueue>>
pureVars == <<args, ret, today>>
tabVars == <<tab, daq, dtask, dqueue>>
recVars == <<stop_event, btn_start, btn_stop, lbl_status, started_at, ui_timer, msgbox,
             nsessions, session, worker, task>>

\* ------------------------------------------------------------ pure helpers

Min(a, b) == IF a <= b THEN a ELSE b

\* int(round(x)) of Python for x = h/2: round half to even.
RoundHalfEven(h) ==
    IF h % 2 = 0 THEN h \div 2
    ELSE LET lo == (h - 1) \div 2 IN IF lo % 2 = 0 THEN lo ELSE lo + 1

\* faulty variant: int() alone, truncating toward zero
TotalSamples_Mut(h) == IF h >= 0 THEN h \div 2 ELSE 0 - ((0 - h) \div 2)
\* total_samples = int(round(SAMPLE_RATE * float(duration_s)))
TotalSamples(h) == RoundHalfEven(h)

\* faulty variant: zero samples pass the guard
ValidSampleCount_Mut(n) == n >= 0
\* the guard "if total_samples <= 0: raise ValueError"
ValidSampleCount(n) == n > 0

\* increment_path: the while loop over n = 2, 3, ...
RECURSIVE IncrementFrom(_, _)
IncrementFrom(n, fs) == IF n \notin fs THEN n ELSE IncrementFrom(n + 1, fs)

\* faulty variant: the first candidate is returned without looking
IncrementPath_Mut(path, fs) == IF path \notin fs THEN path ELSE 2
\* increment_path(path).  Path ids are relative to the argument: 1 is path
\* itself, n >= 2 is path.with_name(f"{stem} ({n}){suffix}")
IncrementPath(path, fs) == IF path \notin fs THEN path ELSE IncrementFrom(2, fs)

\* ---------------------------------------------- strings (utils.py, part C)
\* A string is a sequence of characters and a character is written by name:
\* "a", "N", "A", digits, "-", "." are ordinary characters ("." is one a text
\* field can hold, and the one a path component reads); "SP" is a space;
\* "TAB" is a tab (whitespace and a control character); "SOH" is 0x01 (a
\* control character that is not whitespace); "SLASH" stands for any of
\* < > : " / \ | ? *

Chars == {"a", ".", "SP", "TAB", "SOH", "SLASH"}
Strings == UNION {[1..k -> Chars] : k \in 0..MaxStrLen}

\* str.isspace() / the regex class \s
IsSpace(c) == c \in {"SP", "TAB"}
\* the regex class [<>:"/\\|?*\x00-\x1F]
IsIllegal(c) == c \in {"SLASH", "TAB", "SOH"}

RECURSIVE LStrip(_)
LStrip(s) == IF s # <<>> /\ IsSpace(Head(s)) THEN LStrip(Tail(s)) ELSE s
RECURSIVE RStrip(_)
RStrip(s) ==
    IF s # <<>> /\ IsSpace(s[Len(s)]) THEN RStrip(SubSeq(s, 1, Len(s) - 1)) ELSE s
\* str.strip()
Strip(s) == RStrip(LStrip(s))

\* re.sub(r"\s+", " ", text): each maximal run of whitespace becomes one space
RECURSIVE CollapseSpace(_)
CollapseSpace(s) ==
    IF s = <<>> THEN <<>>
    ELSE IF IsSpace(Head(s)) THEN <<"SP">> \o CollapseSpace(LStrip(Tail(s)))
    ELSE <<Head(s)>> \o CollapseSpace(Tail(s))

\* faulty variant: nothing is removed
RemoveIllegal_Mut(s) == s
\* re.sub(r'[<>:"/\\|?*\x00-\x1F]', "", text)
RemoveIllegal(s) == SelectSeq(s, LAMBDA c : ~IsIllegal(c))

\* the slice text[:n] of Python, negative n included
Slice(s, n) ==
    IF n >= 0 THEN SubSeq(s, 1, Min(n, Len(s)))
    ELSE SubSeq(s, 1, IF Len(s) + n > 0 THEN Len(s) + n ELSE 0)

NA == <<"N", "A">>

\* sanitize_token(text, max_len)
SanitizeToken(text, max_len) ==
    LET t1 == Strip(text)
        t2 == CollapseSpace(t1)
        t3 == RemoveIllegal(t2)
        t4 == Strip(t3)
    IN IF t4 # <<>> THEN Slice(t4, max_len) ELSE NA

\* max_len values passed to sanitize_token: small ones and the default
MaxLens == (0..MaxLenArg) \cup {DefaultMaxLen}

\* datetime.now(): the calendar date of the clock
Today0 == [year |-> 2026, month |-> 11, day |-> 6]
Dates == {[year |-> 2026, month |-> m, day |-> d] : m \in {9, 11}, d \in {6, 10}}

Digit(k) == <<"0", "1", "2", "3", "4", "5", "6", "7", "8", "9">>[k + 1]
\* zero-padded decimal of the given width (%Y, %m, %d of strftime)
RECURSIVE Pad(_, _)
Pad(n, width) ==
    IF width = 0 THEN <<>> ELSE Pad(n \div 10, width - 1) \o <<Digit(n % 10)>>

\* today_yyyy_mm_dd(): datetime.now().strftime("%Y-%m-%d")
TodayYyyyMmDd(now) ==
    Pad(now.year, 4) \o <<"-">> \o Pad(now.month, 2) \o <<"-">> \o Pad(now.day, 2)

Sep == <<"SP", "-", "SP">>
Ext == <<".", "t", "d", "m", "s">>

\* faulty variant: unit and unit_state change places
BuildTdmsFilename_Mut(now, project, unit, unit_state, location) ==
    TodayYyyyMmDd(now) \o Sep \o project \o Sep \o unit_state \o Sep \o unit
        \o Sep \o location \o Ext
\* build_tdms_filename(project, unit, unit_state, location), the clock at now
BuildTdmsFilename(now, project, unit, unit_state, location) ==
    LET date_str == TodayYyyyMmDd(now)
    IN date_str \o Sep \o project \o Sep \o unit \o Sep \o unit_state
           \o Sep \o location \o Ext

\* tokens handed to build_tdms_filename
Tokens == {<<>>, <<"a">>, NA}

\* --------------------------------------- level computation (main.py, part C)
\* A signal is carried as the number of its samples of each kind: exact zeros,
\* one finite non-zero value (1.0), NaN, +inf and -inf.  The level itself is
\* not computed: a result is the sentinel "-inf" or some finite "level".

Signals == [zero : 0..MaxZeros, one : 0..MaxOther, nan : 0..MaxOther,
            pinf : 0..MaxOther, ninf : 0..MaxOther]
Rates == {0 - 25600, 0, 8000, 25600}

\* pressure_pa.size
Size(sig) == sig.zero + sig.one + sig.nan + sig.pinf + sig.ninf
\* samples for which np.isfinite is False
NonFinite(sig) == sig.nan + sig.pinf + sig.ninf
\* np.nan_to_num(pressure_pa, nan=0.0, posinf=0.0, neginf=0.0)
NanToNum(sig) ==
    [zero |-> sig.zero + NonFinite(sig), one |-> sig.one,
     nan |-> 0, pinf |-> 0, ninf |-> 0]
\* faulty variant: the samples are replaced in the caller's array (copy=False)
CallerArrayAfter_Mut(sig) == IF NonFinite(sig) > 0 THEN NanToNum(sig) ELSE sig
\* the caller's array once compute_la_eq is over: nan_to_num returns a new
\* array and only the local name pressure_pa is rebound to it
CallerArrayAfter(sig) == sig

\* x = pressure_pa - np.mean(pressure_pa) is exactly zero iff all samples of
\* a finite signal are equal
MeanRemovedIsZero(sig) == sig.zero = 0 \/ sig.one = 0

\* signal.sosfiltfilt: padlen = 3 * ntaps with ntaps = 2 * n_sections + 1 (no
\* section of this filter has a zero b2 or a2); an input of at most padlen
\* samples raises ValueError
PadLen == 3 * (2 * NSections + 1)

\* faulty variant: a zero rate passes the guard
ValidRate_Mut(fs) == fs >= 0
\* the guard "if fs <= 0: raise ValueError"
ValidRate(fs) == ~(fs <= 0)

\* fs < 2 * f4, f4 in mHz
BelowTwiceF4(fs) == fs * 1000 < 2 * F4MilliHz

\* design_a_weighting_sos(fs).  coeffs: NUM, DEN, b_z, a_z were computed;
\* warnings: what the call reports besides its return value (the function
\* has no warnings.warn, logging or print)
DesignAWeightingSos(fs) ==
    IF ~ValidRate(fs)
    THEN [kind |-> "raise", exc |-> "ValueError: Sampling frequency must be positive.",
          coeffs |-> FALSE, sections |-> 0, warnings |-> <<>>]
    ELSE [kind |-> "return", exc |-> "none",
          coeffs |-> TRUE, sections |-> NSections, warnings |-> <<>>]

\* compute_la_eq(pressure_pa, fs).  processed: the array the mean is taken
\* of; replaced: samples nan_to_num set to zero; reported: what the caller is
\* told besides the returned float (nothing)
ComputeLaEq(pressure_pa, fs) ==
    IF Size(pressure_pa) = 0
    THEN [kind |-> "raise", exc |-> "ValueError: Empty signal.", value |-> "none",
          processed |-> pressure_pa, replaced |-> 0, reported |-> <<>>]
    ELSE LET clean == IF NonFinite(pressure_pa) > 0 THEN NanToNum(pressure_pa)
                      ELSE pressure_pa
             replaced == NonFinite(pressure_pa)
             sos == DesignAWeightingSos(fs)
         IN IF sos.kind = "raise"
            THEN [kind |-> "raise", exc |-> sos.exc, value |-> "none",
                  processed |-> clean, replaced |-> replaced, reported |-> <<>>]
            ELSE IF Size(clean) <= PadLen
            THEN [kind |-> "raise",
                  exc |-> "ValueError: The length of the input vector x must be greater than padlen",
                  value |-> "none",
                  processed |-> clean, replaced |-> replaced, reported |-> <<>>]
            ELSE [kind |-> "return", exc |-> "none",
                  value |-> IF MeanRemovedIsZero(clean) THEN "-inf" ELSE "level",
                  processed |-> clean, replaced |-> replaced, reported |-> <<>>]

\* ------------------------- destination of the project-folder MainWindow
\* A path is the sequence of its components, each component a string.

\* self.project_dir
ProjectDir == <<<<"P">>>>
\* self.recordings_root = self.project_dir / "recordings"
RecordingsRoot == Append(ProjectDir, <<"r", "e", "c", "o", "r", "d", "i", "n", "g", "s">>)

\* dir / name of pathlib, for a name without separators (sanitize_token
\* leaves none): an empty name and the name "." add no component, every
\* other name, ".." included, is appended as it is
JoinPath(dir, name) == IF name \in {<<>>, <<".">>} THEN dir ELSE Append(dir, name)

\* the location the file system gives a path: ".." steps to the parent
RECURSIVE ResolveFrom(_, _)
ResolveFrom(done, rest) ==
    IF rest = <<>> THEN done
    ELSE IF Head(rest) = <<".", ".">>
    THEN ResolveFrom(SubSeq(done, 1, IF done = <<>> THEN 0 ELSE Len(done) - 1), Tail(rest))
    ELSE ResolveFrom(Append(done, Head(rest)), Tail(rest))
Resolve(path) == ResolveFrom(<<>>, path)

\* the texts of the unit-state and location fields
Fields == {<<>>, <<"a">>}

\* start_recording of the project-folder MainWindow up to tdms_path: the
\* stripped texts, the "Missing info" returns, the tokens, the per-unit
\* folder and the file in it
StartRecordingPath(now, unit_text, state_text, loc_text) ==
    LET unit == Strip(unit_text)
        state == Strip(state_text)
        loc == Strip(loc_text)
        unit_tok == SanitizeToken(unit, DefaultMaxLen)
        out_dir == JoinPath(RecordingsRoot, unit_tok)
        filename == BuildTdmsFilename(now, SanitizeToken(ProjectDir[1], DefaultMaxLen),
                                      unit_tok,
                                      SanitizeToken(state, DefaultMaxLen),
                                      SanitizeToken(loc, DefaultMaxLen))
    IN IF unit = <<>> \/ state = <<>> \/ loc = <<>>
       THEN [kind |-> "error", box |-> "Missing info", out_dir |-> <<>>, tdms_path |-> <<>>]
       ELSE [kind |-> "path", box |-> "none", out_dir |-> out_dir,
             tdms_path |-> JoinPath(out_dir, filename)]

\* the inputs of one application of a pure function
PureInputs ==
    [fn : {"increment_path"}, path : {1}]
    \cup [fn : {"build_tdms_filename"}, project : Tokens, unit : Tokens,
          unit_state : Tokens, location : Tokens]
    \cup [fn : {"sanitize_token"}, text : Strings, max_len : MaxLens]
    \cup [fn : {"start_recording"}, unit : Strings, unit_state : Fields, location : Fields]
    \cup [fn : {"design_a_weighting_sos"}, fs : Rates]
    \cup [fn : {"compute_la_eq"}, pressure_pa : Signals, fs : Rates]
NoArgs == [fn |-> "none"]

\* ------------------------------------------------------------------- Init

Worker0 == [pc |-> "unborn", h |-> 0, path |-> 0, total |-> 0, exc |-> "none",
            polls |-> 0, emitted |-> <<>>]
\* stops: task.stop() calls; late_queries: is_task_done() calls made after a
\* task.stop() of the same session
Task0 == [state |-> "none", samps |-> 0, acquired |-> 0, stalled |-> FALSE,
          stops |-> 0, late_queries |-> 0]
\* the Task object after close(): its resources are released
TaskClosed(tk) == [Task0 EXCEPT !.state = "closed", !.stops = tk.stops,
                                !.late_queries = tk.late_queries]
\* stale: the stop flag was still set when start_recording was entered;
\* stop_req: Stop was clicked while this session was the current one
Session0 == [existed |-> FALSE, choice |-> "none", fresh |-> FALSE, delivered |-> 0,
             stale |-> FALSE, stop_req |-> FALSE]

\* RecordingTab.__init__: worker None, Stop disabled, empty text fields, then
\* update_start_button(): Start disabled, state "Idle".  mic_ok is what
\* validate_mic(cfg) would return now; locked is lock_tabs/unlock_tabs.
\* onto: the destination of the current session was "new", existed and the
\* overwrite was "confirmed", or existed and nobody was asked ("silent");
\* meta: outcome of the metadata append of finish; container: the file as
\* that append left it.
Container0 == [samples |-> 0, root_props |-> 0, chan_props |-> 0]
Tab0 == [worker |-> FALSE, start |-> FALSE, stop |-> FALSE, state |-> "Idle",
         progress |-> 0, meta_ok |-> FALSE, mic_ok |-> FALSE, locked |-> FALSE,
         duration |-> 1, nstarted |-> 0, fin_emitted |-> 0,
         onto |-> "none", meta |-> "none", container |-> Container0]
\* DAQWorker: pc of run(), self.running, self.duration_sec, total_samples;
\* stopped_mid: stop() was called while the task ran and was not done;
\* last: the latest value given to elapsed_signal.emit, in samples
Daq0 == [pc |-> "unborn", running |-> TRUE, duration |-> 0, total |-> 0,
         polls |-> 0, exc |-> "none", stopped_mid |-> FALSE, last |-> 0]

InitProgram ==
    /\ stop_event = FALSE
    /\ btn_start = TRUE
    /\ btn_stop = FALSE
    /\ lbl_status = "Idle"
    /\ started_at = FALSE
    /\ ui_timer = FALSE
    /\ msgbox = "none"
    /\ nsessions = 0
    /\ session = [s \in Sessions |-> Session0]
    /\ worker = [s \in Sessions |-> Worker0]
    /\ task = [s \in Sessions |-> Task0]
    /\ tab = Tab0
    /\ daq = Daq0
    /\ dtask = Task0
    /\ dqueue = <<>>

Init ==
    /\ InitProgram
    /\ files \in SUBSET PathIds
    /\ args = NoArgs
    /\ ret = <<>>
    /\ today = Today0

\* ------------------------------------------------- RecorderWorker (part A)
\* Each driver call either succeeds or raises a DaqError; the text of the
\* exception is modelled by the name of the call that raised it.

Emit(s, sig, arg) ==
    [worker EXCEPT ![s].emitted = Append(@, [sig |-> sig, arg |-> arg])]

\* an exception leaves the "with nidaqmx.Task()" block: the task is closed
\* and RecorderWorker.run reaches its except clause
DriverRaise(s, where) ==
    /\ worker' = [worker EXCEPT ![s].pc = "except", ![s].exc = where, ![s].polls = 0]
    /\ task' = [task EXCEPT ![s] = TaskClosed(@)]

\* thread.started -> RecorderWorker.run: self.status.emit("Recording")
RunBegin(s) ==
    /\ worker[s].pc = "ready"
    /\ worker' = [Emit(s, "status", "Recording") EXCEPT ![s].pc = "validate"]
    /\ UNCHANGED <<mwVars, files, nsessions, session, task, tabVars, pureVars>>

\* total_samples = int(round(...)); if total_samples <= 0: raise ValueError
RecValidate(s) ==
    /\ worker[s].pc = "validate"
    /\ LET n == TotalSamples(worker[s].h) IN
         worker' = [worker EXCEPT
                      ![s].total = n,
                      ![s].pc = IF ValidSampleCount(n) THEN "add_chan" ELSE "except",
                      ![s].exc = IF ValidSampleCount(n) THEN "none" ELSE "ValueError"]
    /\ UNCHANGED <<mwVars, files, nsessions, session, task, tabVars, pureVars>>

\* with nidaqmx.Task() as task: task.ai_channels.add_ai_microphone_chan(...)
RecAddChan(s) ==
    /\ worker[s].pc = "add_chan"
    /\ \E ok \in BOOLEAN :
         IF ok
         THEN /\ worker' = [worker EXCEPT ![s].pc = "configure"]
              /\ task' = [task EXCEPT ![s].state = "created"]
         ELSE DriverRaise(s, "DaqError:add_ai_microphone_chan")
    /\ UNCHANGED <<mwVars, files, nsessions, session, tabVars, pureVars>>

\* ch.ai_coupling, ch.ai_microphone_sensitivity, task.timing.cfg_samp_clk_timing,
\* task.in_stream.configure_logging(str(tdms_path), LoggingMode.LOG, ...)
RecConfigure(s) ==
    /\ worker[s].pc = "configure"
    /\ \E ok \in BOOLEAN :
         IF ok
         THEN /\ worker' = [worker EXCEPT ![s].pc = "task_start"]
              /\ task' = [task EXCEPT ![s].samps = worker[s].total]
         ELSE DriverRaise(s, "DaqError:configure")
    /\ UNCHANGED <<mwVars, files, nsessions, session, tabVars, pureVars>>

\* task.start(); t0 = time.time().  CREATE_OR_REPLACE creates the file.
RecTaskStart(s) ==
    /\ worker[s].pc = "task_start"
    /\ \E ok \in BOOLEAN :
         IF ok
         THEN /\ worker' = [worker EXCEPT ![s].pc = "loop_top"]
              /\ task' = [task EXCEPT ![s].state = "running"]
              /\ files' = files \cup {worker[s].path}
         ELSE /\ DriverRaise(s, "DaqError:start")
              /\ UNCHANGED files
    /\ UNCHANGED <<mwVars, nsessions, session, tabVars, pureVars>>

\* faulty variant: the stop flag is seen and task.stop() issued, but the loop goes on
RecCheckStop_Mut(s) ==
    /\ worker[s].pc = "loop_top"
    /\ IF stop_event
       THEN /\ task' = [task EXCEPT ![s].stops = @ + 1]
            /\ worker' = [worker EXCEPT ![s].pc = "query"]
       ELSE /\ worker' = [worker EXCEPT ![s].pc = "query"]
            /\ UNCHANGED task
    /\ UNCHANGED <<mwVars, files, nsessions, session, tabVars, pureVars>>

\* while True: if stop_event is not None and stop_event.is_set():
\*     try: task.stop()  finally: break
\* A break inside finally discards an exception raised by task.stop().
RecCheckStop(s) ==
    /\ worker[s].pc = "loop_top"
    /\ IF stop_event
       THEN \E ok \in BOOLEAN :
              /\ task' = [task EXCEPT ![s].stops = @ + 1,
                                      ![s].state = IF ok THEN "stopped" ELSE @]
              /\ worker' = [worker EXCEPT
                              ![s].pc = "after_loop",
                              ![s].exc = IF ok THEN @ ELSE "swallowed:DaqError:stop"]
       ELSE /\ worker' = [worker EXCEPT ![s].pc = "query"]
            /\ UNCHANGED task
    /\ UNCHANGED <<mwVars, files, nsessions, session, tabVars, pureVars>>

\* if task.is_task_done(): break
RecQueryDone(s) ==
    /\ worker[s].pc = "query"
    /\ \E ok \in BOOLEAN :
         IF ok
         THEN /\ task' = [task EXCEPT ![s].late_queries =
                                IF task[s].stops > 0 THEN @ + 1 ELSE @]
              /\ worker' = [worker EXCEPT
                              ![s].pc = IF task[s].acquired = task[s].samps
                                        THEN "after_loop" ELSE "sleep"]
         ELSE DriverRaise(s, "DaqError:is_task_done")
    /\ UNCHANGED <<mwVars, files, nsessions, session, tabVars, pureVars>>

\* time.sleep(0.02): time passes, a healthy running task acquires samples.
\* The loop itself is unbounded; the count of sleeps saturates at MaxPolls.
RecSleep(s) ==
    /\ worker[s].pc = "sleep"
    /\ worker' = [worker EXCEPT ![s].pc = "loop_top",
                                ![s].polls = Min(MaxPolls, @ + 1)]
    /\ task' = [task EXCEPT ![s].acquired =
                   IF task[s].stalled THEN @
                   ELSE Min(task[s].samps, @ + SamplesPerPoll)]
    /\ UNCHANGED <<mwVars, files, nsessions, session, tabVars, pureVars>>

\* leaving the with block closes the task; return (t1 - t0)
RecReturn(s) ==
    /\ worker[s].pc = "after_loop"
    /\ worker' = [worker EXCEPT ![s].pc = "emit_idle", ![s].polls = 0]
    /\ task' = [task EXCEPT ![s] = TaskClosed(@)]
    /\ UNCHANGED <<mwVars, files, nsessions, session, tabVars, pureVars>>

\* result = RecordResult(...); self.status.emit("Idle")
RunEmitIdle(s) ==
    /\ worker[s].pc = "emit_idle"
    /\ worker' = [Emit(s, "status", "Idle") EXCEPT ![s].pc = "emit_finished"]
    /\ UNCHANGED <<mwVars, files, nsessions, session, task, tabVars, pureVars>>

\* self.finished.emit(result)
RunEmitFinished(s) ==
    /\ worker[s].pc = "emit_finished"
    /\ worker' = [Emit(s, "finished", "result") EXCEPT ![s].pc = "returned"]
    /\ UNCHANGED <<mwVars, files, nsessions, session, task, tabVars, pureVars>>

\* faulty variant: the except clause forgets the status update
RunExcept_Mut(s) ==
    /\ worker[s].pc = "except"
    /\ worker' = [worker EXCEPT ![s].pc = "emit_error"]
    /\ UNCHANGED <<mwVars, files, nsessions, session, task, tabVars, pureVars>>

\* except Exception as e: self.status.emit("Idle")
RunExcept(s) ==
    /\ worker[s].pc = "except"
    /\ worker' = [Emit(s, "status", "Idle") EXCEPT ![s].pc = "emit_error"]
    /\ UNCHANGED <<mwVars, files, nsessions, session, task, tabVars, pureVars>>

\* self.error.emit(str(e))
RunEmitError(s) ==
    /\ worker[s].pc = "emit_error"
    /\ worker' = [Emit(s, "error", worker[s].exc) EXCEPT ![s].pc = "returned"]
    /\ UNCHANGED <<mwVars, files, nsessions, session, task, tabVars, pureVars>>

\* the hardware stops delivering samples without reporting an error
HwStall(s) ==
    /\ task[s].state = "running"
    /\ task[s].acquired < task[s].samps
    /\ ~task[s].stalled
    /\ task' = [task EXCEPT ![s].stalled = TRUE]
    /\ UNCHANGED <<mwVars, files, nsessions, session, worker, tabVars, pureVars>>

WorkerStep(s) ==
    \/ RunBegin(s)
    \/ RecValidate(s)
    \/ RecAddChan(s)
    \/ RecConfigure(s)
    \/ RecTaskStart(s)
    \/ RecCheckStop(s)
    \/ RecQueryDone(s)
    \/ RecSleep(s)
    \/ RecReturn(s)
    \/ RunEmitIdle(s)
    \/ RunEmitFinished(s)
    \/ RunExcept(s)
    \/ RunEmitError(s)

\* ------------------------------------------------------ MainWindow (part A)

Choices == {"increment", "overwrite", "cancel"}

\* sb_duration: setRange(0.1, 600.0), setDecimals(1): always a positive whole
\* number of samples (2560 per step); scaled here to 1..MaxSamples samples
DurationsUI == {2 * k : k \in 1..MaxSamples}

\* build_tdms_filename(...) in the storage folder: path id 1
DesiredPath == 1

\* faulty variant: the increment choice is ignored
ResolvePath_Mut(desired, choice, fs) == desired
\* if tdms_path.exists(): choice = self._ask_file_exists(...)
\*   increment -> increment_path(tdms_path); overwrite -> pass
ResolvePath(desired, choice, fs) ==
    IF desired \in fs /\ choice = "increment" THEN IncrementPath(desired, fs)
    ELSE desired

\* faulty variant: Start stays enabled during a session
UiStateRecording_Mut ==
    /\ btn_start' = TRUE
    /\ btn_stop' = TRUE
    /\ lbl_status' = "Recording"
    /\ started_at' = TRUE
    /\ ui_timer' = TRUE
\* "UI state": Start disabled, Stop enabled, status, started_at, timer started
UiStateRecording ==
    /\ btn_start' = FALSE
    /\ btn_stop' = TRUE
    /\ lbl_status' = "Recording"
    /\ started_at' = TRUE
    /\ ui_timer' = TRUE

\* faulty variant: the flag is left as the last session set it
StopEventAtStart_Mut(ev) == ev
\* self.stop_event.clear()
StopEventAtStart(ev) == FALSE

\* _ask_file_exists: the dialog and the button that closed it
FileExistsBox(choice) ==
    CASE choice = "increment" -> "File already exists: Increment"
      [] choice = "overwrite" -> "File already exists: Overwrite"
      [] OTHER -> "File already exists: Cancel"

\* faulty variant: the cancel answer is not honoured
Cancelled_Mut(exists, choice) == FALSE
\* if tdms_path.exists(): ... if choice == "cancel": return
Cancelled(exists, choice) == exists /\ choice = "cancel"

\* Start clicked.  form: "missing" = a required field is empty or no valid
\* channel; "no_folder" = the storage folder is absent and not created.
\* msgbox is the dialog this call showed ("none" when it showed none).
StartRecording ==
    /\ btn_start
    /\ \E form \in {"ok", "missing", "no_folder"}, h \in DurationsUI, choice \in Choices :
         IF form # "ok"
         THEN /\ msgbox' = IF form = "missing" THEN "Missing info" ELSE "Create folder?"
              /\ UNCHANGED <<stop_event, btn_start, btn_stop, lbl_status, started_at,
                             ui_timer, files, nsessions, session, worker, task, tabVars, pureVars>>
         ELSE IF Cancelled(DesiredPath \in files, choice)
         THEN /\ msgbox' = FileExistsBox(choice)
              /\ UNCHANGED <<stop_event, btn_start, btn_stop, lbl_status, started_at,
                             ui_timer, files, nsessions, session, worker, task, tabVars, pureVars>>
         ELSE LET path == ResolvePath(DesiredPath, choice, files)
                  s == nsessions + 1
              IN /\ nsessions < MaxSessions
                 /\ path <= MaxIdx
                 /\ msgbox' = IF DesiredPath \in files THEN FileExistsBox(choice) ELSE "none"
                 /\ stop_event' = StopEventAtStart(stop_event)
                 /\ UiStateRecording
                 /\ nsessions' = s
                 /\ session' = [session EXCEPT ![s] =
                        [existed |-> DesiredPath \in files,
                         choice |-> IF DesiredPath \in files THEN choice ELSE "none",
                         fresh |-> path \notin files,
                         delivered |-> 0,
                         stale |-> stop_event,
                         stop_req |-> FALSE]]
                 /\ worker' = [worker EXCEPT ![s] =
                        [Worker0 EXCEPT !.pc = "ready", !.h = h, !.path = path]]
                 /\ UNCHANGED <<files, task, tabVars, pureVars>>

\* Stop clicked: stop_recording; the current session is the latest one
StopRecording ==
    /\ btn_stop
    /\ stop_event' = TRUE
    /\ lbl_status' = "Stopping..."
    /\ session' = [s \in Sessions |->
                     IF s = nsessions THEN [session[s] EXCEPT !.stop_req = TRUE]
                     ELSE session[s]]
    /\ UNCHANGED <<btn_start, btn_stop, started_at, ui_timer, msgbox,
                   files, nsessions, worker, task, tabVars, pureVars>>

\* the next queued signal of session s waiting in the main thread's event loop
Pending(s) == session[s].delivered < Len(worker[s].emitted)
NextSignal(s) == worker[s].emitted[session[s].delivered + 1]

\* worker.finished / worker.error -> thread.quit, worker.deleteLater: the
\* worker, its thread and its task object are gone once the slot has run
Retire(s) ==
    /\ session' = [session EXCEPT ![s] = Session0]
    /\ worker' = [worker EXCEPT ![s] = [Worker0 EXCEPT !.pc = "deleted"]]
    /\ task' = [task EXCEPT ![s] = Task0]

\* worker.status -> _set_status
SetStatus(s) ==
    /\ Pending(s)
    /\ NextSignal(s).sig = "status"
    /\ lbl_status' = NextSignal(s).arg
    /\ session' = [session EXCEPT ![s].delivered = @ + 1]
    /\ UNCHANGED <<stop_event, btn_start, btn_stop, started_at, ui_timer, msgbox,
                   files, nsessions, worker, task, tabVars, pureVars>>

\* worker.finished -> _on_finished
OnFinished(s) ==
    /\ Pending(s)
    /\ NextSignal(s).sig = "finished"
    /\ ui_timer' = FALSE
    /\ started_at' = FALSE
    /\ lbl_status' = "Idle"
    /\ btn_start' = TRUE
    /\ btn_stop' = FALSE
    /\ Retire(s)
    /\ UNCHANGED <<stop_event, msgbox, files, nsessions, tabVars, pureVars>>

\* worker.error -> _on_error
OnError(s) ==
    /\ Pending(s)
    /\ NextSignal(s).sig = "error"
    /\ ui_timer' = FALSE
    /\ started_at' = FALSE
    /\ lbl_status' = "Idle"
    /\ btn_start' = TRUE
    /\ btn_stop' = FALSE
    /\ msgbox' = "Recording failed"
    /\ Retire(s)
    /\ UNCHANGED <<stop_event, files, nsessions, tabVars, pureVars>>

Next ==
    \/ StartRecording
    \/ StopRecording
    \/ \E s \in Sessions : WorkerStep(s)
    \/ \E s \in Sessions : HwStall(s)
    \/ \E s \in Sessions : SetStatus(s)
    \/ \E s \in Sessions : OnFinished(s)
    \/ \E s \in Sessions : OnError(s)

Spec == Init /\ [][Next]_vars

\* --------------------------------- record_microphone_to_tdms called directly
\* RecorderWorker.run with any RecordMeta.duration_s and any stop_event, one
\* call after the other; any thread may set the event at any time.

DurationsAny == (0 - 3)..(2 * MaxSamples + 1)

CallRun ==
    /\ nsessions < MaxSessions
    /\ \A s \in Sessions : worker[s].pc \in {"unborn", "returned", "deleted"}
    /\ \E h \in DurationsAny, path \in PathIds, ev \in BOOLEAN :
         /\ worker' = [s \in Sessions |->
                IF s = nsessions + 1
                THEN [Worker0 EXCEPT !.pc = "ready", !.h = h, !.path = path]
                ELSE IF worker[s].pc = "returned"
                THEN [Worker0 EXCEPT !.pc = "deleted"] ELSE worker[s]]
         /\ stop_event' = ev
    /\ task' = [s \in Sessions |-> Task0]
    /\ nsessions' = nsessions + 1
    /\ UNCHANGED <<btn_start, btn_stop, lbl_status, started_at, ui_timer, msgbox,
                   files, session, tabVars, pureVars>>

SetStop ==
    /\ ~stop_event
    /\ stop_event' = TRUE
    /\ UNCHANGED <<btn_start, btn_stop, lbl_status, started_at, ui_timer, msgbox,
                   files, nsessions, session, worker, task, tabVars, pureVars>>

NextWorker ==
    \/ CallRun
    \/ SetStop
    \/ \E s \in Sessions : WorkerStep(s)
    \/ \E s \in Sessions : HwStall(s)

SpecWorker == Init /\ [][NextWorker]_vars

\* the worker thread is scheduled: it takes its next step whenever it has one
SpecWorkerFair == SpecWorker /\ WF_vars(\E s \in Sessions : WorkerStep(s))

\* ---------------------------------------- RecordingTab and DAQWorker (part B)
\* Time unit: one msleep(50) of the polling loop; duration counts these units
\* and a healthy task acquires SamplesPerPoll samples in each.

\* faulty variant: a running worker is not looked at
UpdateStartButton_Mut(tb) ==
    LET enabled == tb.mic_ok /\ tb.meta_ok IN
    [tb EXCEPT !.start = enabled, !.state = IF enabled THEN "Armed" ELSE "Idle"]
\* update_start_button(): enabled = valid_mic and meta_ok and not self.worker
UpdateStartButton(tb) ==
    LET enabled == tb.mic_ok /\ tb.meta_ok /\ ~tb.worker IN
    [tb EXCEPT !.start = enabled, !.state = IF enabled THEN "Armed" ELSE "Idle"]

\* unit_state / location textEdited -> update_start_button
EditText ==
    /\ \E ok \in BOOLEAN : tab' = UpdateStartButton([tab EXCEPT !.meta_ok = ok])
    /\ UNCHANGED <<recVars, pureVars, files, daq, dtask, dqueue>>

\* the duration spin box (range 1..120) is edited; it is never disabled
EditDuration ==
    /\ \E d \in 1..MaxDuration : d # tab.duration /\ tab' = [tab EXCEPT !.duration = d]
    /\ UNCHANGED <<recVars, pureVars, files, daq, dtask, dqueue>>

\* the configured device or channel appears or disappears (validate_mic)
MicChange ==
    /\ tab' = [tab EXCEPT !.mic_ok = ~@]
    /\ UNCHANGED <<recVars, pureVars, files, daq, dtask, dqueue>>

\* Start clicked: start_rec
StartRec ==
    /\ tab.start
    /\ \E yes \in BOOLEAN :
         IF DesiredPath \in files /\ ~yes
         THEN UNCHANGED <<tab, daq, dtask>>
         ELSE /\ tab.nstarted < MaxSessions
              /\ daq' = [Daq0 EXCEPT !.pc = "init", !.duration = tab.duration]
              /\ dtask' = Task0
              /\ tab' = [tab EXCEPT !.worker = TRUE, !.start = FALSE, !.stop = TRUE,
                                    !.state = "Recording", !.locked = TRUE,
                                    !.nstarted = @ + 1,
                                    !.onto = IF DesiredPath \in files
                                             THEN "confirmed" ELSE "new"]
    /\ UNCHANGED <<recVars, pureVars, files, dqueue>>

\* DAQWorker.stop as called by it: the hardware is done iff all samples arrived
HwIncomplete ==
    /\ daq.pc \in {"init", "add_chan", "configure", "start", "loop_test",
                   "emit_elapsed", "msleep"}
    /\ ~(dtask.state = "running" /\ dtask.acquired = dtask.samps)

\* Stop clicked: stop_rec -> DAQWorker.stop: self.running = False
StopRec ==
    /\ tab.stop
    /\ IF tab.worker
       THEN daq' = [daq EXCEPT !.running = FALSE,
                               !.stopped_mid = @ \/ HwIncomplete]
       ELSE UNCHANGED daq
    /\ UNCHANGED <<recVars, pureVars, files, tab, dtask, dqueue>>

\* an exception leaves DAQWorker.run: nothing catches it, the thread ends
DaqRaise(where) ==
    /\ daq' = [daq EXCEPT !.pc = "dead", !.exc = where, !.polls = 0]
    /\ dtask' = [dtask EXCEPT !.state = IF @ = "none" THEN @ ELSE "closed"]

\* faulty variant: one duration unit too many
DaqTotalSamples_Mut(d) == (d + 1) * SamplesPerPoll
\* total_samples = int(self.duration_sec * self.SAMPLE_RATE)
DaqTotalSamples(d) == d * SamplesPerPoll

\* total_samples = int(duration_sec * SAMPLE_RATE); os.makedirs(rec_dir)
DaqInit ==
    /\ daq.pc = "init"
    /\ \E ok \in BOOLEAN :
         IF ok
         THEN /\ daq' = [daq EXCEPT !.pc = "add_chan",
                                    !.total = DaqTotalSamples(daq.duration)]
              /\ UNCHANGED dtask
         ELSE DaqRaise("OSError:makedirs")
    /\ UNCHANGED <<recVars, pureVars, files, tab, dqueue>>

\* with nidaqmx.Task() as task: add_ai_microphone_chan(...)
DaqAddChan ==
    /\ daq.pc = "add_chan"
    /\ \E ok \in BOOLEAN :
         IF ok
         THEN /\ daq' = [daq EXCEPT !.pc = "configure"]
              /\ dtask' = [dtask EXCEPT !.state = "created"]
         ELSE DaqRaise("DaqError:add_ai_microphone_chan")
    /\ UNCHANGED <<recVars, pureVars, files, tab, dqueue>>

\* coupling, sensitivity, cfg_samp_clk_timing, configure_logging
DaqConfigure ==
    /\ daq.pc = "configure"
    /\ \E ok \in BOOLEAN :
         IF ok
         THEN /\ daq' = [daq EXCEPT !.pc = "start"]
              /\ dtask' = [dtask EXCEPT !.samps = daq.total]
         ELSE DaqRaise("DaqError:configure")
    /\ UNCHANGED <<recVars, pureVars, files, tab, dqueue>>

\* task.start(): CREATE_OR_REPLACE creates the file
DaqStart ==
    /\ daq.pc = "start"
    /\ \E ok \in BOOLEAN :
         IF ok
         THEN /\ daq' = [daq EXCEPT !.pc = "loop_test"]
              /\ dtask' = [dtask EXCEPT !.state = "running"]
              /\ files' = files \cup {DesiredPath}
         ELSE /\ DaqRaise("DaqError:start")
              /\ UNCHANGED files
    /\ UNCHANGED <<recVars, pureVars, tab, dqueue>>

\* while not task.is_task_done() and self.running:
DaqLoopTest ==
    /\ daq.pc = "loop_test"
    /\ \E ok \in BOOLEAN :
         IF ok
         THEN /\ daq' = [daq EXCEPT !.pc =
                           IF dtask.acquired # dtask.samps /\ daq.running
                           THEN "emit_elapsed" ELSE "wait"]
              /\ UNCHANGED dtask
         ELSE DaqRaise("DaqError:is_task_done")
    /\ UNCHANGED <<recVars, pureVars, files, tab, dqueue>>

\* self.elapsed_signal.emit(total_samp_per_chan_acquired / SAMPLE_RATE)
DaqEmitElapsed ==
    /\ daq.pc = "emit_elapsed"
    /\ \E ok \in BOOLEAN :
         IF ok
         THEN /\ daq' = [daq EXCEPT !.pc = "msleep", !.last = dtask.acquired]
              /\ dqueue' = Append(dqueue, [sig |-> "elapsed", arg |-> dtask.acquired])
              /\ UNCHANGED dtask
         ELSE /\ DaqRaise("DaqError:total_samp_per_chan_acquired")
              /\ UNCHANGED dqueue
    /\ UNCHANGED <<recVars, pureVars, files, tab>>

\* self.msleep(50)
DaqMsleep ==
    /\ daq.pc = "msleep"
    /\ daq.polls < MaxPolls
    /\ daq' = [daq EXCEPT !.pc = "loop_test", !.polls = @ + 1]
    /\ dtask' = [dtask EXCEPT !.acquired =
                    IF dtask.stalled THEN @ ELSE Min(dtask.samps, @ + SamplesPerPoll)]
    /\ UNCHANGED <<recVars, pureVars, files, tab, dqueue>>

\* task.wait_until_done(timeout=self.duration_sec + 2): blocks until the task
\* has all its samples, or raises when they do not arrive within the timeout
DaqWaitUntilDone ==
    /\ daq.pc = "wait"
    /\ IF dtask.stalled
          \/ dtask.samps - dtask.acquired > (daq.duration + WaitMargin) * SamplesPerPoll
       THEN DaqRaise("DaqError:wait_until_done timeout")
       ELSE /\ daq' = [daq EXCEPT !.pc = "emit_last"]
            /\ dtask' = [dtask EXCEPT !.acquired = dtask.samps]
    /\ UNCHANGED <<recVars, pureVars, files, tab, dqueue>>

\* the last elapsed_signal.emit(...); leaving the with block closes the task
DaqEmitLast ==
    /\ daq.pc = "emit_last"
    /\ \E ok \in BOOLEAN :
         IF ok
         THEN /\ daq' = [daq EXCEPT !.pc = "emit_finished", !.polls = 0,
                                    !.last = dtask.acquired]
              /\ dtask' = [dtask EXCEPT !.state = "closed"]
              /\ dqueue' = Append(dqueue, [sig |-> "elapsed", arg |-> dtask.acquired])
         ELSE /\ DaqRaise("DaqError:total_samp_per_chan_acquired")
              /\ UNCHANGED dqueue
    /\ UNCHANGED <<recVars, pureVars, files, tab>>

\* self.finished_signal.emit({"filename": self.filename})
DaqEmitFinished ==
    /\ daq.pc = "emit_finished"
    /\ daq' = [daq EXCEPT !.pc = "returned"]
    /\ dqueue' = Append(dqueue, [sig |-> "finished", arg |-> 0])
    /\ UNCHANGED <<recVars, pureVars, files, tab, dtask>>

\* the hardware stops delivering samples without reporting an error
DaqHwStall ==
    /\ dtask.state = "running"
    /\ dtask.acquired < dtask.samps
    /\ ~dtask.stalled
    /\ dtask' = [dtask EXCEPT !.stalled = TRUE]
    /\ UNCHANGED <<recVars, pureVars, files, tab, daq, dqueue>>

\* QProgressBar.setValue on the default range 0..100: a value outside the
\* range leaves the bar as it is
SetValue(cur, v) == IF v \in 0..100 THEN v ELSE cur

\* elapsed_signal -> update_progress, with the spin box value of that moment
UpdateProgress ==
    /\ dqueue # <<>>
    /\ Head(dqueue).sig = "elapsed"
    /\ tab' = [tab EXCEPT !.progress =
                  SetValue(@, (100 * Head(dqueue).arg) \div (tab.duration * SamplesPerPoll))]
    /\ dqueue' = Tail(dqueue)
    /\ UNCHANGED <<recVars, pureVars, files, daq, dtask>>

\* finished_signal -> finish; the DAQWorker object is released
Finish ==
    /\ dqueue # <<>>
    /\ Head(dqueue).sig = "finished"
    /\ tab' = UpdateStartButton([tab EXCEPT !.worker = FALSE, !.stop = FALSE,
                                            !.progress = 100, !.locked = FALSE,
                                            !.fin_emitted = @ + 1, !.onto = "none"])
    /\ dqueue' = Tail(dqueue)
    /\ daq' = [Daq0 EXCEPT !.pc = "deleted"]
    /\ dtask' = Task0
    /\ UNCHANGED <<recVars, pureVars, files>>

DaqStep ==
    \/ DaqInit
    \/ DaqAddChan
    \/ DaqConfigure
    \/ DaqStart
    \/ DaqLoopTest
    \/ DaqEmitElapsed
    \/ DaqMsleep
    \/ DaqWaitUntilDone
    \/ DaqEmitLast
    \/ DaqEmitFinished

\* RecordingTab writes one destination only: it exists or it does not
InitTab ==
    /\ InitProgram
    /\ files \in SUBSET {DesiredPath}
    /\ args = NoArgs
    /\ ret = <<>>
    /\ today = Today0

NextTab ==
    \/ EditText
    \/ EditDuration
    \/ MicChange
    \/ StartRec
    \/ StopRec
    \/ DaqStep
    \/ DaqHwStall
    \/ UpdateProgress
    \/ Finish

SpecTab == InitTab /\ [][NextTab]_vars

\* ------------------------- RecordingTab with the TdmsWriter append (part B)
\* The other RecordingTab: start_rec asks nothing, finish appends metadata to
\* the container before it resets the tab.  It drives the same DAQWorker.

\* Start clicked: start_rec
StartRecW ==
    /\ tab.start
    /\ tab.nstarted < MaxSessions
    /\ daq' = [Daq0 EXCEPT !.pc = "init", !.duration = tab.duration]
    /\ dtask' = Task0
    /\ tab' = [tab EXCEPT !.worker = TRUE, !.start = FALSE, !.stop = TRUE,
                          !.state = "Recording", !.locked = TRUE,
                          !.nstarted = @ + 1,
                          !.onto = IF DesiredPath \in files THEN "silent" ELSE "new",
                          !.meta = "none", !.container = Container0]
    /\ UNCHANGED <<recVars, pureVars, files, dqueue>>

\* faulty variant: the file is rewritten, not appended to
AppendMetadata_Mut(c) == [Container0 EXCEPT !.root_props = 1]
\* with TdmsWriter(file_path, mode="a") as writer:
\*     writer.write_segment([RootObject(properties=new_file_properties)])
AppendMetadata(c) == [c EXCEPT !.root_props = @ + 1]

\* finished_signal -> finish.  The container is what the logging of this
\* session wrote; opening it or writing the segment may raise, and then the
\* exception leaves the slot before the tab is reset.
FinishW ==
    /\ dqueue # <<>>
    /\ Head(dqueue).sig = "finished"
    /\ dqueue' = Tail(dqueue)
    /\ \E ok \in BOOLEAN :
         IF ok
         THEN /\ tab' = UpdateStartButton(
                    [tab EXCEPT !.worker = FALSE, !.stop = FALSE,
                                !.progress = 100, !.locked = FALSE,
                                !.fin_emitted = @ + 1, !.onto = "none",
                                !.meta = "appended",
                                !.container = AppendMetadata(
                                    [Container0 EXCEPT !.samples = dtask.acquired])])
              /\ daq' = [Daq0 EXCEPT !.pc = "deleted"]
              /\ dtask' = Task0
         ELSE /\ tab' = [tab EXCEPT !.meta = "failed"]
              /\ UNCHANGED <<daq, dtask>>
    /\ UNCHANGED <<recVars, pureVars, files>>

NextTabW ==
    \/ EditText
    \/ EditDuration
    \/ MicChange
    \/ StartRecW
    \/ StopRec
    \/ DaqStep
    \/ DaqHwStall
    \/ UpdateProgress
    \/ FinishW

SpecTabW == InitTab /\ [][NextTabW]_vars


\* ------------------------------------------- pure functions called (part C)
\* One application of a function of utils.py or of the analyzer to arguments
\* drawn in the initial state; ret collects the results.  Only
\* build_tdms_filename reads the clock, so only for it does the date move.

InitPure ==
    /\ InitProgram
    /\ args \in PureInputs
    /\ files \in (IF args.fn = "increment_path" THEN SUBSET PathIds ELSE {{}})
    /\ ret = <<>>
    /\ today \in (IF args.fn = "build_tdms_filename" THEN Dates ELSE {Today0})

\* increment_path(path) on the storage folder as it is
CallIncrementPath ==
    /\ args.fn = "increment_path"
    /\ ret = <<>>
    /\ ret' = <<[out |-> IncrementPath(args.path, files)]>>
    /\ UNCHANGED <<progVars, args, today>>

CallBuildTdmsFilename ==
    /\ args.fn = "build_tdms_filename"
    /\ Len(ret) < MaxCalls
    /\ ret' = Append(ret, [date |-> today,
                           out |-> BuildTdmsFilename(today, args.project, args.unit,
                                                     args.unit_state, args.location)])
    /\ UNCHANGED <<progVars, args, today>>

\* the calendar date changes between two calls
NewDay ==
    /\ args.fn = "build_tdms_filename"
    /\ today' \in Dates \ {today}
    /\ UNCHANGED <<progVars, args, ret>>

CallSanitizeToken ==
    /\ args.fn = "sanitize_token"
    /\ ret = <<>>
    /\ ret' = <<[out |-> SanitizeToken(args.text, args.max_len)]>>
    /\ UNCHANGED <<progVars, args, today>>

\* the token is given to sanitize_token once more
CallSanitizeTokenAgain ==
    /\ args.fn = "sanitize_token"
    /\ Len(ret) = 1
    /\ ret' = Append(ret, [out |-> SanitizeToken(ret[1].out, args.max_len)])
    /\ UNCHANGED <<progVars, args, today>>

\* Start clicked in the project-folder MainWindow: where the recording goes
CallStartRecordingPath ==
    /\ args.fn = "start_recording"
    /\ ret = <<>>
    /\ ret' = <<StartRecordingPath(today, args.unit, args.unit_state, args.location)>>
    /\ UNCHANGED <<progVars, args, today>>

CallDesignAWeightingSos ==
    /\ args.fn = "design_a_weighting_sos"
    /\ ret = <<>>
    /\ ret' = <<DesignAWeightingSos(args.fs)>>
    /\ UNCHANGED <<progVars, args, today>>

\* called up to MaxCalls times on the same array object
CallComputeLaEq ==
    /\ args.fn = "compute_la_eq"
    /\ Len(ret) < MaxCalls
    /\ ret' = Append(ret, ComputeLaEq(args.pressure_pa, args.fs))
    /\ args' = [args EXCEPT !.pressure_pa = CallerArrayAfter(@)]
    /\ UNCHANGED <<progVars, today>>

NextPure ==
    \/ CallIncrementPath
    \/ CallBuildTdmsFilename
    \/ NewDay
    \/ CallSanitizeToken
    \/ CallSanitizeTokenAgain
    \/ CallStartRecordingPath
    \/ CallDesignAWeightingSos
    \/ CallComputeLaEq

SpecPure == InitPure /\ [][NextPure]_vars

\* ======================================================= claims, part A

Active(s) == worker[s].pc \notin {"unborn", "deleted"}
InLoop(s) == worker[s].pc \in {"loop_top", "query", "sleep"}
Terminal == {"finished", "error"}

\* C1: in MainWindow at most one RecorderWorker is active (started and its
\* finished/error not yet delivered) at any time, and while one is active the
\* Start button is disabled, so no second start_recording can begin.
C1_AtMostOneActiveWorker ==
    /\ Cardinality({s \in Sessions : Active(s)}) <= 1
    /\ (\E s \in Sessions : Active(s)) => ~btn_start

\* a second session is polling, after a Stop click, once the first was delivered
C1_Witness ==
    /\ nsessions = 2
    /\ worker[1].pc = "deleted"
    /\ worker[2].pc = "loop_top"
    /\ stop_event

\* C2: the stop flag is read at the top of every polling iteration, before
\* is_task_done(); an iteration that starts with the flag set issues exactly one
\* task.stop() and leaves the loop, and no is_task_done() query follows a
\* task.stop() in the same session.
C2_StopCheckedFirst ==
    /\ [](\A s \in Sessions : task[s].stops <= 1 /\ task[s].late_queries = 0)
    /\ [][\A s \in Sessions :
            (worker[s].pc = "loop_top" /\ worker'[s] # worker[s]) =>
               IF stop_event
               THEN /\ task'[s].stops = task[s].stops + 1
                    /\ worker'[s].pc = "after_loop"
               ELSE /\ task'[s].stops = task[s].stops
                    /\ worker'[s].pc = "query"]_vars

\* the loop was left through the stop branch, with one task.stop() issued
C2_Witness ==
    \E s \in Sessions :
        /\ worker[s].pc = "after_loop"
        /\ stop_event
        /\ task[s].stops = 1
        /\ worker[s].polls > 0

\* C4: a driver exception raised anywhere inside record_microphone_to_tdms,
\* the task.stop() of a cancellation included, ends RecorderWorker.run with
\* error(text of the exception) and without finished(result).
C4_DriverErrorSurfaces ==
    \A s \in Sessions :
        (worker[s].pc = "returned" /\ worker[s].exc # "none") =>
            /\ worker[s].emitted[Len(worker[s].emitted)] =
                   [sig |-> "error", arg |-> worker[s].exc]
            /\ \A i \in 1..Len(worker[s].emitted) : worker[s].emitted[i].sig # "finished"

\* the signals of a run, as far as emitted, are status("Recording"), then
\* status("Idle"), then one of finished(result) and error(message); a run that
\* has returned has emitted all three
SignalOrder ==
    \A s \in Sessions :
        LET e == worker[s].emitted IN
        /\ Len(e) <= 3
        /\ Len(e) >= 1 => e[1] = [sig |-> "status", arg |-> "Recording"]
        /\ Len(e) >= 2 => e[2] = [sig |-> "status", arg |-> "Idle"]
        /\ Len(e) >= 3 => e[3].sig \in Terminal
        /\ worker[s].pc = "returned" => Len(e) = 3

\* C5: every execution of RecorderWorker.run emits status("Recording"), then
\* status("Idle"), then exactly one of finished(result) and error(message):
\* never both and never neither.
C5_ExactlyOneTerminal ==
    /\ []SignalOrder
    /\ \A s \in Sessions :
          (worker[s].pc = "validate") ~> (Len(worker[s].emitted) = 3)

\* C8: record_microphone_to_tdms stops waiting after duration plus a fixed guard
\* margin even if the hardware never reports completion and the stop flag is
\* never set.
C8_BoundedWait ==
    \A s \in Sessions :
        (InLoop(s) /\ ~stop_event) =>
            worker[s].polls * SamplesPerPoll <= worker[s].total + GuardPolls * SamplesPerPoll

\* C9: a request whose sample count is not positive is rejected with
\* ValueError before any hardware task is created, configured or started.
C9_RejectsNonPositive ==
    \A s \in Sessions :
        (worker[s].pc \notin {"unborn", "ready", "validate", "deleted"}
             /\ worker[s].total <= 0) =>
            /\ worker[s].exc = "ValueError"
            /\ worker[s].pc \in {"except", "emit_error", "returned"}
            /\ task[s].state = "none"

\* half a sample period rounds to zero samples and is rejected
C9_Witness ==
    \E s \in Sessions :
        /\ worker[s].h = 1
        /\ worker[s].pc = "returned"
        /\ worker[s].emitted[3] = [sig |-> "error", arg |-> "ValueError"]
        /\ task[s].state = "none"

\* C10: when the computed path exists, a recording runs on that same path only
\* after the user chose overwrite; after increment it runs on another path that
\* did not exist when chosen; after cancel no recording starts; and a task
\* started by MainWindow replaces an existing file only after overwrite.
C10_NoSilentOverwrite ==
    /\ [](\A s \in Sessions : Active(s) =>
            IF session[s].existed
            THEN /\ session[s].choice \in {"overwrite", "increment"}
                 /\ worker[s].path = DesiredPath => session[s].choice = "overwrite"
                 /\ session[s].choice = "increment" =>
                        (worker[s].path # DesiredPath /\ session[s].fresh)
            ELSE worker[s].path = DesiredPath /\ session[s].fresh)
    /\ [][\A s \in Sessions :
            (worker[s].pc = "task_start" /\ worker'[s].pc = "loop_top"
                 /\ worker[s].path \in files) => session[s].choice = "overwrite"]_vars

\* increment skipped "stem (2)" and the task was started on "stem (3)"
C10_Witness ==
    \E s \in Sessions :
        /\ session[s].existed
        /\ session[s].choice = "increment"
        /\ worker[s].path = 3
        /\ worker[s].pc = "loop_top"

\* C11: a start_recording call that ends with Cancel at the file-exists prompt
\* creates no worker or thread, touches no hardware task and no file, leaves
\* the stop flag as it was, and leaves the window idle: Start enabled, Stop
\* disabled, the elapsed timer not running, the status label unchanged.
C11_CancelChangesNothing ==
    [][msgbox' = "File already exists: Cancel" =>
         /\ UNCHANGED <<stop_event, lbl_status, files, nsessions, session, worker, task>>
         /\ btn_start' /\ ~btn_stop' /\ ~ui_timer' /\ ~started_at']_vars

\* cancelled after an earlier session was stopped: the flag is still set
C11_Witness ==
    /\ msgbox = "File already exists: Cancel"
    /\ stop_event
    /\ nsessions >= 1
    /\ btn_start

\* C21: a call of record_microphone_to_tdms with duration d that is never
\* cancelled and raises no error has configured the hardware for exactly
\* int(round(25600 * d)) samples and leaves its polling loop only once the
\* hardware reports the task done: all these samples are then in the container.
C21_CompletedHoldsAllSamples ==
    \A s \in Sessions :
        (worker[s].pc = "after_loop" /\ task[s].stops = 0) =>
            /\ task[s].samps = RoundHalfEven(worker[s].h)
            /\ task[s].samps > 0
            /\ task[s].acquired = task[s].samps

\* 1.5 sample periods requested: two samples configured and acquired
C21_Witness ==
    \E s \in Sessions :
        /\ worker[s].pc = "after_loop"
        /\ task[s].stops = 0
        /\ worker[s].h = 3
        /\ task[s].acquired = 2

\* C29: the one threading.Event of MainWindow carries no Stop request from one
\* session into the next: a session is cancelled (task.stop() issued on the
\* stop flag) only if Stop was clicked while that session was the current
\* one, also when the previous Stop came after its worker had returned and
\* before its finished/error was handled.
C29_StopDoesNotLeak ==
    \A s \in Sessions : task[s].stops > 0 => session[s].stop_req

\* the flag was still set when the session was started; the session ran to
\* completion without a task.stop()
C29_Witness ==
    \E s \in Sessions :
        /\ session[s].stale
        /\ ~session[s].stop_req
        /\ worker[s].pc = "after_loop"
        /\ task[s].stops = 0
        /\ task[s].acquired = task[s].samps

\* C30: in every state of MainWindow exactly one of Start and Stop is
\* enabled; Stop is enabled iff a session is active, and a session is active
\* iff started_at is not None and the UI timer runs.
C30_ButtonsMirrorSession ==
    /\ btn_start # btn_stop
    /\ btn_stop <=> (\E s \in Sessions : Active(s))
    /\ (\E s \in Sessions : Active(s)) <=> (started_at /\ ui_timer)

\* the second session was stopped and has returned, its signals are not
\* handled yet: Stop is still the enabled button
C30_Witness ==
    /\ nsessions = 2
    /\ worker[2].pc = "returned"
    /\ session[2].stop_req
    /\ session[2].delivered = 0
    /\ btn_stop
    /\ ~btn_start
    /\ started_at

\* C31: once stop_recording has set the status label to "Stopping..." during
\* an active session (Stop is still enabled), no step changes the label back
\* to "Recording" before that session ends, whichever way the Stop click and
\* the delivery of the worker's queued status("Recording") are ordered.
C31_StoppingNotReverted ==
    [][(btn_stop /\ lbl_status = "Stopping...") => lbl_status' # "Recording"]_vars

\* ======================================================= claims, part B

\* C3: a DAQWorker session on which stop() was called while the hardware task
\* had not completed has acquired strictly fewer than total_samples samples
\* when finished_signal is emitted.
C3_CancelYieldsFewerSamples ==
    (daq.pc = "returned" /\ daq.stopped_mid) => dtask.acquired < daq.total

\* C6: when wait_until_done times out, the session ends with an error
\* notification for the caller: one is queued, or the tab has been told.
C6_TimeoutIsReported ==
    (daq.pc = "dead" /\ daq.exc = "DaqError:wait_until_done timeout") =>
        \/ \E i \in 1..Len(dqueue) : dqueue[i].sig \in {"finished", "error"}
        \/ ~tab.worker

\* C7: every session started by start_rec, a raising driver call included,
\* brings the tab back to idle: once the worker thread has ended and all its
\* queued signals are handled, worker is None, Stop is disabled and
\* recording_finished has unlocked the other tabs.
C7_TabReturnsToIdle ==
    (daq.pc \in {"dead", "returned"} /\ dqueue = <<>>) =>
        (~tab.worker /\ ~tab.stop /\ ~tab.locked)

\* C22: within one DAQWorker session every elapsed_signal value is the
\* acquired sample count of that moment (over 25600), the values emitted never
\* decrease and none exceeds the requested duration; the progress bar of
\* RecordingTab is never above 100.
C22_ElapsedMonotoneBounded ==
    /\ [](tab.progress <= 100)
    /\ [][(Len(dqueue') = Len(dqueue) + 1 /\ dqueue'[Len(dqueue')].sig = "elapsed") =>
            LET v == dqueue'[Len(dqueue')].arg
            IN /\ v = dtask.acquired
               /\ v >= daq.last
               /\ v <= daq.duration * SamplesPerPoll]_vars

\* a two-unit session whose spin box was lowered to one unit: all progress
\* notifications are handled and the bar stands at 100
C22_Witness ==
    /\ daq.pc = "emit_finished"
    /\ daq.duration = 2
    /\ daq.last = 2 * SamplesPerPoll
    /\ tab.duration = 1
    /\ dqueue = <<>>
    /\ tab.progress = 100

\* C23: in the RecordingTab whose finish appends metadata with TdmsWriter, a
\* failure of that append is not fatal: the session still ends with worker
\* None, Stop disabled, progress 100 and recording_finished emitted.
C23_AppendFailureNotFatal ==
    tab.meta = "failed" =>
        (~tab.worker /\ ~tab.stop /\ tab.progress = 100 /\ ~tab.locked
         /\ tab.fin_emitted = tab.nstarted)

\* C26: the RecordingTab without a file-exists prompt never starts a DAQWorker
\* onto a destination that exists unless the user confirmed the overwrite.
C26_TabNeverOverwritesSilently ==
    tab.onto # "silent"

\* C27: finish opens the container for its metadata append only after the
\* DAQWorker has closed the hardware task of that file, and the append adds
\* one root property segment and leaves the channel samples as they were.
C27_AppendAfterCloseKeepsSamples ==
    [][(tab'.meta = "appended" /\ tab.meta # "appended") =>
         /\ dtask.state = "closed"
         /\ daq.pc = "returned"
         /\ tab'.container.samples = dtask.acquired
         /\ tab'.container.root_props = 1
         /\ tab'.container.chan_props = 0]_vars

\* the metadata of a completed two-sample session has been appended
C27_Witness ==
    /\ tab.meta = "appended"
    /\ tab.container = [samples |-> 2 * SamplesPerPoll, root_props |-> 1, chan_props |-> 0]
    /\ ~tab.worker

\* C28: a RecordingTab session is entered only from Armed, that is with Start
\* enabled by update_start_button (unit state and location filled in, no
\* worker), and finish leaves the tab Idle or Armed with no worker.
C28_EnteredFromArmed ==
    /\ [](tab.start => (tab.state = "Armed" /\ tab.meta_ok /\ ~tab.worker))
    /\ [][(tab'.state = "Recording" /\ tab.state # "Recording") =>
            (tab.state = "Armed" /\ tab.start /\ tab.meta_ok /\ ~tab.worker)]_vars
    /\ [][(dqueue # <<>> /\ Head(dqueue).sig = "finished" /\ dqueue' = Tail(dqueue)) =>
            (tab'.state \in {"Idle", "Armed"} /\ ~tab'.worker)]_vars

\* a second session was entered after the first one was finished
C28_Witness ==
    /\ tab.nstarted = 2
    /\ tab.fin_emitted = 1
    /\ tab.state = "Recording"
    /\ tab.worker

\* C32: while RecordingTab holds a DAQWorker (worker is not None) the
\* displayed session state is "Recording", whatever the user types into the
\* unit-state and location fields; it changes only when finish is delivered.
C32_RecordingWhileWorker ==
    tab.worker => tab.state = "Recording"


\* ======================================================= claims, part C

Called(fn) == args.fn = fn /\ ret # <<>>

\* C12: increment_path(path) returns path unchanged when it does not exist;
\* when it exists it returns candidate N, "<stem> (N)<suffix>", for the
\* smallest N >= 2 that does not exist: every candidate k with 2 <= k < N
\* exists, and the returned path does not exist at call time.
C12_IncrementPath ==
    Called("increment_path") =>
        LET out == ret[1].out
        IN /\ out \notin files
           /\ (args.path \notin files) => out = args.path
           /\ (args.path \in files) =>
                (out >= 2 /\ \A k \in 2..(out - 1) : k \in files)

\* the path and its first candidate exist: candidate 3 is returned
C12_Witness ==
    /\ Called("increment_path")
    /\ {1, 2} \subseteq files
    /\ ret[1].out = 3

\* t occupies positions pos .. pos + Len(t) - 1 of s
StartsAt(s, pos, t) ==
    /\ pos + Len(t) - 1 <= Len(s)
    /\ SubSeq(s, pos, pos + Len(t) - 1) = t
\* the number a string of decimal digits denotes
RECURSIVE Number(_)
Number(s) ==
    IF s = <<>> THEN 0
    ELSE 10 * Number(SubSeq(s, 1, Len(s) - 1))
           + (CHOOSE k \in 0..9 : Digit(k) = s[Len(s)])

\* C13: with the clock at date D, build_tdms_filename(project, unit, state,
\* location) returns exactly "D - project - unit - state - location.tdms", D
\* written YYYY-MM-DD, and calls with the same arguments on the same date
\* return the same string.
C13_FilenameTemplate ==
    Called("build_tdms_filename") =>
        \A i \in 1..Len(ret) :
            LET out == ret[i].out
                d == ret[i].date
                p1 == 14
                p2 == p1 + Len(args.project) + 3
                p3 == p2 + Len(args.unit) + 3
                p4 == p3 + Len(args.unit_state) + 3
                p5 == p4 + Len(args.location)
            IN /\ Len(out) = p5 + 4
               /\ Number(SubSeq(out, 1, 4)) = d.year
               /\ out[5] = "-"
               /\ Number(SubSeq(out, 6, 7)) = d.month
               /\ out[8] = "-"
               /\ Number(SubSeq(out, 9, 10)) = d.day
               /\ StartsAt(out, 11, <<"SP", "-", "SP">>)
               /\ StartsAt(out, p1, args.project)
               /\ StartsAt(out, p2 - 3, <<"SP", "-", "SP">>)
               /\ StartsAt(out, p2, args.unit)
               /\ StartsAt(out, p3 - 3, <<"SP", "-", "SP">>)
               /\ StartsAt(out, p3, args.unit_state)
               /\ StartsAt(out, p4 - 3, <<"SP", "-", "SP">>)
               /\ StartsAt(out, p4, args.location)
               /\ StartsAt(out, p5, <<".", "t", "d", "m", "s">>)
               /\ \A j \in 1..Len(ret) : ret[j].date = d => ret[j].out = out

\* two calls on the same September day, with tokens that differ
C13_Witness ==
    /\ Called("build_tdms_filename")
    /\ Len(ret) = 2
    /\ ret[1].date = ret[2].date
    /\ ret[1].date.month = 9
    /\ args.unit = <<"a">>
    /\ args.unit_state = NA
    /\ ret[2].out = <<"2", "0", "2", "6", "-", "0", "9", "-", "1", "0",
                      "SP", "-", "SP", "SP", "-", "SP", "a", "SP", "-", "SP",
                      "N", "A", "SP", "-", "SP", "a", ".", "t", "d", "m", "s">>

\* s holds none of < > : " / \ | ? * and no control character
NoIllegal(s) == \A i \in 1..Len(s) : ~IsIllegal(s[i])
\* s is empty or becomes empty by stripping
Blank(s) == \A i \in 1..Len(s) : IsSpace(s[i])

\* C14 as stated, for every max_len: the result of sanitize_token is not
\* empty, is at most max_len long, holds no illegal and no control character,
\* and is "NA" for an input that is empty or becomes empty by stripping.
C14_SanitizedAnyMaxLen ==
    Called("sanitize_token") =>
        LET out == ret[1].out
        IN /\ out # <<>>
           /\ Len(out) <= args.max_len
           /\ NoIllegal(out)
           /\ Blank(args.text) => out = NA

\* C14, amended: the same for every max_len >= 2, the default 60 included.
C14_Sanitized ==
    (Called("sanitize_token") /\ args.max_len >= 2) =>
        LET out == ret[1].out
        IN /\ out # <<>>
           /\ Len(out) <= args.max_len
           /\ NoIllegal(out)
           /\ Blank(args.text) => out = NA

\* a text with an illegal and a control character, longer than max_len
C14_Witness ==
    /\ Called("sanitize_token")
    /\ args.text = <<"a", "SLASH", "a", "SOH", "a">>
    /\ args.max_len = 2
    /\ ret[1].out = <<"a", "a">>

\* C15: the result of sanitize_token has its whitespace collapsed: no two
\* consecutive whitespace characters, no leading or trailing whitespace.
C15_WhitespaceCollapsed ==
    Called("sanitize_token") =>
        LET out == ret[1].out
        IN /\ \A i \in 1..(Len(out) - 1) : ~(IsSpace(out[i]) /\ IsSpace(out[i + 1]))
           /\ out # <<>> => (~IsSpace(out[1]) /\ ~IsSpace(out[Len(out)]))

\* the call returned the no-signal sentinel
Sentinel(r) == r.kind = "return" /\ r.value = "-inf"

\* C16: compute_la_eq called with an empty sample array returns the
\* no-signal sentinel (negative infinity) and does not raise.
C16_EmptyGivesSentinel ==
    (Called("compute_la_eq") /\ Size(args.pressure_pa) = 0) => Sentinel(ret[1])

\* C17: compute_la_eq called with an all-zero signal of any length >= 1, the
\* lengths up to the filter's padding length included, and a positive sample
\* rate returns the sentinel and does not raise.
C17_SilenceGivesSentinel ==
    (/\ Called("compute_la_eq")
     /\ args.pressure_pa.zero >= 1
     /\ Size(args.pressure_pa) = args.pressure_pa.zero
     /\ args.fs > 0) => Sentinel(ret[1])

\* C18: design_a_weighting_sos(fs) with fs <= 0 raises before any filter
\* coefficient is computed, and compute_la_eq with a non-empty signal and
\* fs <= 0 raises that same error and returns no level.
C18_NonPositiveRateRaises ==
    /\ (Called("design_a_weighting_sos") /\ args.fs <= 0) =>
          /\ ret[1].kind = "raise"
          /\ ~ret[1].coeffs
    /\ (Called("compute_la_eq") /\ Size(args.pressure_pa) >= 1 /\ args.fs <= 0) =>
          /\ ret[1].kind = "raise"
          /\ ret[1].exc = DesignAWeightingSos(args.fs).exc
          /\ ret[1].exc = "ValueError: Sampling frequency must be positive."
          /\ ret[1].value = "none"

\* a short signal with a NaN and rate 0: the rate error is the one raised
C18_Witness ==
    /\ Called("compute_la_eq")
    /\ args.fs = 0
    /\ Size(args.pressure_pa) = 2
    /\ args.pressure_pa.nan = 1
    /\ ret[1].exc = "ValueError: Sampling frequency must be positive."

\* C19: design_a_weighting_sos(fs) with 0 < fs < 2 * 12194.217 Hz returns
\* filter sections and reports a degraded-accuracy warning to the caller.
C19_LowRateWarns ==
    (Called("design_a_weighting_sos") /\ args.fs > 0 /\ BelowTwiceF4(args.fs)) =>
        /\ ret[1].kind = "return"
        /\ ret[1].sections >= 1
        /\ ret[1].warnings # <<>>

\* C20: compute_la_eq replaces every non-finite sample by zero before any
\* further processing and tells the caller how many samples it replaced.
C20_NonFiniteReplacedAndReported ==
    (Called("compute_la_eq") /\ NonFinite(args.pressure_pa) >= 1
                              /\ ret[1].kind = "return") =>
        /\ NonFinite(ret[1].processed) = 0
        /\ ret[1].processed.zero = args.pressure_pa.zero + NonFinite(args.pressure_pa)
        /\ ret[1].reported = <<NonFinite(args.pressure_pa)>>

Inside(path, dir) ==
    /\ Len(path) > Len(dir)
    /\ SubSeq(path, 1, Len(dir)) = dir

\* C33: in the project-folder MainWindow, for every unit, state and location
\* text that passes the non-empty checks, the destination of the recording
\* lies inside the project's recordings directory: the per-unit folder built
\* from sanitize_token(unit) never resolves to the parent of the recordings
\* directory or to a place outside it.
C33_DestinationInsideRecordings ==
    (Called("start_recording") /\ ret[1].kind = "path") =>
        /\ Inside(Resolve(ret[1].tdms_path), RecordingsRoot)
        /\ Resolve(ret[1].out_dir) = RecordingsRoot
           \/ Inside(Resolve(ret[1].out_dir), RecordingsRoot)

\* C34: sanitize_token is idempotent: for every string x and every max_len,
\* sanitize_token(sanitize_token(x, max_len), max_len) equals
\* sanitize_token(x, max_len).
C34_SanitizeIdempotent ==
    (args.fn = "sanitize_token" /\ Len(ret) = 2) => ret[2].out = ret[1].out

====
